---- MODULE Spec2Model ----
(***************************************************************************)
(* Proof-of-work mining client (main.rs): the Block value and its          *)
(* canonical hash, the difficulty predicate, the nonce search on a         *)
(* blocking worker, the three server operations and the driver loop.       *)
(*                                                                         *)
(* Strings are sequences of one-character strings, byte vectors are        *)
(* sequences of 0..255.                                                    *)
(***************************************************************************)
EXTENDS Integers, Sequences, FiniteSets, TLC

(***************************************************************************)
(* Bounds of the model.                                                    *)
(***************************************************************************)
\* Largest value of the worker's `attempt` counter, an i32 by integer
\* fallback: stands for i32::MAX.
I32Max == 7
\* Largest reading of the system clock, in seconds since the epoch.
MaxClock == 1
\* Number of driver cycles that are started.
MaxCycles == 2
\* The history counters (hash computations, nonce increments) saturate here.
HistCap == 2

\* Largest value of the u64 fields (index, timestamp, nonce): stands for
\* u64::MAX, so that the end of the nonce space is within reach of a search.
\* u64::MAX + 1 is a multiple of the number of i32 values, 2 * (i32::MAX + 1);
\* here it is that number.
U64Max == 2 * (I32Max + 1) - 1

(***************************************************************************)
(* State.                                                                  *)
(***************************************************************************)
VARIABLES
    overflow_checks,  \* the build: TRUE with overflow checks (debug profile)
    now,              \* the system clock, seconds since the epoch
    pc,               \* where main is: display, difficulty, tip, mine, join,
                      \* submit, submit_wait, submit_body, sleep; err (main
                      \* returned Err), panic (main panicked)
    cycle,            \* number of the current iteration of main's loop
    difficulty,       \* main's `difficulty`, -1 before it is bound
    previous_block,   \* main's `previous_block`
    new_block,        \* the candidate, then main's `new_block`
    worker,           \* the spawn_blocking task: idle, running, done, panicked
    attempt,          \* the worker's `attempt`
    status,           \* send_block_to_server's `status`, 0 before it is bound
    last_io,          \* the last network operation, its outcome and body
    stdout,           \* the last line printed
    trace,            \* the events of the current cycle, in order
    hashes,           \* calculate_hash calls of the current mine_block
    incs,             \* nonce increments of the current mine_block
    sent,             \* the block in the body of the POST that was sent
    rejected,         \* some POST of this run was answered with a non-2xx status
    server,           \* the server at localhost:8000: any server, or the mock
                      \* with its fixed tip and the blocks it has received
    probe             \* a direct call of meets_difficulty: arguments and result

vars == <<server, probe, overflow_checks, now, pc, cycle, difficulty, previous_block, new_block,
          worker, attempt, status, last_io, stdout, trace, hashes, incs,
          sent, rejected>>

(***************************************************************************)
(* Characters, decimal and hexadecimal rendering.                          *)
(***************************************************************************)
\* A sequence given as a function on 1..n, as the tuple it equals.
AsTuple(f) == f \o <<>>

\* The element of a one-element set: {e(v) : v \in {x}} computes x once,
\* however often e uses it.
The(S) == CHOOSE v \in S : TRUE

HexDigits == <<"0","1","2","3","4","5","6","7","8","9","a","b","c","d","e","f">>

DecDigits == <<"0","1","2","3","4","5","6","7","8","9">>

\* The ASCII characters from the space (code 32) to the underscore (code 95),
\* in the order of their codes.
AsciiUpper ==
    <<" ", "!", "\"", "#", "$", "%", "&", "'", "(", ")", "*", "+", ",", "-", ".", "/",
      "0", "1", "2", "3", "4", "5", "6", "7", "8", "9", ":", ";", "<", "=", ">", "?",
      "@", "A", "B", "C", "D", "E", "F", "G", "H", "I", "J", "K", "L", "M", "N", "O",
      "P", "Q", "R", "S", "T", "U", "V", "W", "X", "Y", "Z", "[", "\\", "]", "^", "_">>

\* The ASCII characters from "a" (code 97) to the tilde (code 126).
AsciiLower ==
    <<"a", "b", "c", "d", "e", "f", "g", "h", "i", "j", "k", "l", "m", "n", "o", "p",
      "q", "r", "s", "t", "u", "v", "w", "x", "y", "z", "{", "|", "}", "~">>

\* The byte of a character in a str (UTF-8): its ASCII code.
AsciiCode(c) ==
    IF \E code \in 1..Len(AsciiUpper) : AsciiUpper[code] = c
    THEN 31 + (CHOOSE code \in 1..Len(AsciiUpper) : AsciiUpper[code] = c)
    ELSE 96 + (CHOOSE code \in 1..Len(AsciiLower) : AsciiLower[code] = c)

\* str::as_bytes
AsBytes(s) == [at \in 1..Len(s) |-> AsciiCode(s[at])] \o <<>>

\* Display of an unsigned integer: decimal, no sign, no leading zeros.
RECURSIVE DisplayUInt(_)
DisplayUInt(n) ==
    IF n < 10 THEN <<DecDigits[n + 1]>>
    ELSE Append(DisplayUInt(n \div 10), DecDigits[(n % 10) + 1])

\* hex::encode: two lowercase hex characters per byte, high nibble first.
HexEncode(bytes) ==
    The({ AsTuple([k \in 1..(2 * Len(v)) |->
                      IF k % 2 = 1 THEN HexDigits[(v[(k + 1) \div 2] \div 16) + 1]
                      ELSE HexDigits[(v[k \div 2] % 16) + 1]]) : v \in {bytes} })

HexDigitsUpper == <<"0","1","2","3","4","5","6","7","8","9","A","B","C","D","E","F">>

\* Value of a hex character of either case, -1 when it is none.
HexVal(c) ==
    IF \E h \in 1..16 : HexDigits[h] = c
    THEN (CHOOSE h \in 1..16 : HexDigits[h] = c) - 1
    ELSE IF \E h \in 1..16 : HexDigitsUpper[h] = c
    THEN (CHOOSE h \in 1..16 : HexDigitsUpper[h] = c) - 1
    ELSE -1

\* hex::decode: Err on odd length or on a character that is no hex digit.
HexDecode(s) ==
    The({ IF Len(v) % 2 # 0 \/ \E m \in 1..Len(v) : HexVal(v[m]) < 0
          THEN [ok |-> FALSE, bytes |-> <<>>]
          ELSE [ok |-> TRUE,
                bytes |-> AsTuple([m \in 1..(Len(v) \div 2) |->
                                      16 * HexVal(v[2 * m - 1]) + HexVal(v[2 * m])])]
          : v \in {s} })

(***************************************************************************)
(* Integer arithmetic of the build.  `+` on an unsigned integer panics on  *)
(* overflow when the build has overflow checks (the debug profile) and     *)
(* wraps when it has none (the release profile).                           *)
(***************************************************************************)
U64Add1(x) == [overflow |-> x = U64Max, val |-> (x + 1) % (U64Max + 1)]

\* i32: wraps from I32Max to -(I32Max + 1).
I32Add1(x) == [overflow |-> x = I32Max,
               val |-> IF x = I32Max THEN -(I32Max + 1) ELSE x + 1]

(***************************************************************************)
(* The blocks that are hashed: the payload, and the tips a block is mined   *)
(* on.                                                                     *)
(***************************************************************************)
\* b"Block data", the payload of every block the driver mines.
BlockData == <<66, 108, 111, 99, 107, 32, 100, 97, 116, 97>>

Zero64 == AsTuple([q \in 1..64 |-> "0"])

\* The hash of a genesis block (index 0, timestamp 0, no data, previous_hash
\* Zero64) that was mined to nonce 4314:
\* "5e39c22e48392ee2778df1b4e8f8267a1f533ff00547c729a711e216c7dba91d".
\* The block with index 1, timestamp 0 and payload BlockData on top of it has
\* a hash with two leading zero bytes first at nonce 7.
GenesisHash ==
    <<"5","e","3","9","c","2","2","e","4","8","3","9","2","e","e","2",
      "7","7","8","d","f","1","b","4","e","8","f","8","2","6","7","a",
      "1","f","5","3","3","f","f","0","0","5","4","7","c","7","2","9",
      "a","7","1","1","e","2","1","6","c","7","d","b","a","9","1","d">>

\* Indexes and hashes of the blocks that /last-block answers with.
TipIndexes == {0, 9, U64Max}
TipHashes == {Zero64, GenesisHash}

(***************************************************************************)
(* SHA-256 (FIPS 180-4), as sha2's Sha256 computes it.  A 32-bit word is a *)
(* pair <<high half, low half>> of 16-bit numbers.                         *)
(***************************************************************************)
DigestLen == 32

\* 2^16
Half == 65536

\* The powers of two from 2^0 to 2^16.
PowersOfTwo ==
    <<1, 2, 4, 8, 16, 32, 64, 128, 256, 512, 1024, 2048, 4096, 8192, 16384,
      32768, 65536>>

\* 2^n, for n in 0..16.
Pow2(n) == PowersOfTwo[n + 1]

\* Bitwise and, exclusive or of two numbers, bit by bit.
RECURSIVE BitAnd(_, _)
BitAnd(a, b) ==
    IF a = 0 \/ b = 0 THEN 0
    ELSE 2 * BitAnd(a \div 2, b \div 2) + ((a % 2) * (b % 2))

RECURSIVE BitXor(_, _)
BitXor(a, b) ==
    IF a = 0 THEN b
    ELSE IF b = 0 THEN a
    ELSE 2 * BitXor(a \div 2, b \div 2) + ((a + b) % 2)

\* The two operations on 4-bit numbers, tabulated: entry 16 * a + b + 1.
AndTable == [e \in 1..256 |-> BitAnd((e - 1) \div 16, (e - 1) % 16)] \o <<>>

XorTable == [e \in 1..256 |-> BitXor((e - 1) \div 16, (e - 1) % 16)] \o <<>>

\* The two operations on 16-bit numbers, four bits at a time.
And16(a, b) ==
    4096 * AndTable[16 * (a \div 4096) + (b \div 4096) + 1]
    + 256 * AndTable[16 * ((a \div 256) % 16) + ((b \div 256) % 16) + 1]
    + 16 * AndTable[16 * ((a \div 16) % 16) + ((b \div 16) % 16) + 1]
    + AndTable[16 * (a % 16) + (b % 16) + 1]

Xor16(a, b) ==
    4096 * XorTable[16 * (a \div 4096) + (b \div 4096) + 1]
    + 256 * XorTable[16 * ((a \div 256) % 16) + ((b \div 256) % 16) + 1]
    + 16 * XorTable[16 * ((a \div 16) % 16) + ((b \div 16) % 16) + 1]
    + XorTable[16 * (a % 16) + (b % 16) + 1]

WordAnd(x, y) == <<And16(x[1], y[1]), And16(x[2], y[2])>>

WordXor(x, y) == <<Xor16(x[1], y[1]), Xor16(x[2], y[2])>>

WordNot(x) == <<Half - 1 - x[1], Half - 1 - x[2]>>

\* Addition modulo 2^32.
WordAdd(x, y) ==
    <<(x[1] + y[1] + (x[2] + y[2]) \div Half) % Half, (x[2] + y[2]) % Half>>

\* Rotation to the right by n bits, 0 < n < 32.
RotR(x, n) ==
    IF n = 16 THEN <<x[2], x[1]>>
    ELSE IF n < 16
    THEN <<x[1] \div Pow2(n) + (x[2] % Pow2(n)) * Pow2(16 - n),
           x[2] \div Pow2(n) + (x[1] % Pow2(n)) * Pow2(16 - n)>>
    ELSE <<x[2] \div Pow2(n - 16) + (x[1] % Pow2(n - 16)) * Pow2(32 - n),
           x[1] \div Pow2(n - 16) + (x[2] % Pow2(n - 16)) * Pow2(32 - n)>>

\* Shift to the right by n bits, 0 < n < 16.
ShR(x, n) ==
    <<x[1] \div Pow2(n), x[2] \div Pow2(n) + (x[1] % Pow2(n)) * Pow2(16 - n)>>

BigSigma0(x) == WordXor(WordXor(RotR(x, 2), RotR(x, 13)), RotR(x, 22))

BigSigma1(x) == WordXor(WordXor(RotR(x, 6), RotR(x, 11)), RotR(x, 25))

SmallSigma0(x) == WordXor(WordXor(RotR(x, 7), RotR(x, 18)), ShR(x, 3))

SmallSigma1(x) == WordXor(WordXor(RotR(x, 17), RotR(x, 19)), ShR(x, 10))

Ch(x, y, z) == WordXor(WordAnd(x, y), WordAnd(WordNot(x), z))

Maj(x, y, z) == WordXor(WordXor(WordAnd(x, y), WordAnd(x, z)), WordAnd(y, z))

ShaK ==
    << <<17034, 12184>>, <<28983, 17553>>, <<46528, 64463>>, <<59829, 56229>>,
       <<14678, 49755>>, <<23025, 4593>>, <<37439, 33444>>, <<43804, 24277>>,
       <<55303, 43672>>, <<4739, 23297>>, <<9265, 34238>>, <<21772, 32195>>,
       <<29374, 23924>>, <<32990, 45566>>, <<39900, 1703>>, <<49563, 61812>>,
       <<58523, 27073>>, <<61374, 18310>>, <<4033, 40390>>, <<9228, 41420>>,
       <<11753, 11375>>, <<19060, 33962>>, <<23728, 43484>>, <<30457, 35034>>,
       <<38974, 20818>>, <<43057, 50797>>, <<45059, 10184>>, <<48985, 32711>>,
       <<50912, 3059>>, <<54695, 37191>>, <<1738, 25425>>, <<5161, 10599>>,
       <<10167, 2693>>, <<11803, 8504>>, <<19756, 28156>>, <<21304, 3347>>,
       <<25866, 29524>>, <<30314, 2747>>, <<33218, 51502>>, <<37490, 11397>>,
       <<41663, 59553>>, <<43034, 26187>>, <<49739, 35696>>, <<51052, 20899>>,
       <<53650, 59417>>, <<54937, 1572>>, <<62478, 13701>>, <<4202, 41072>>,
       <<6564, 49430>>, <<7735, 27656>>, <<10056, 30540>>, <<13488, 48309>>,
       <<14620, 3251>>, <<20184, 43594>>, <<23452, 51791>>, <<26670, 28659>>,
       <<29839, 33518>>, <<30885, 25455>>, <<33992, 30740>>, <<36039, 520>>,
       <<37054, 65530>>, <<42064, 27883>>, <<48889, 41975>>, <<50801, 30962>> >>

ShaH0 ==
    << <<27145, 58983>>, <<47975, 44677>>, <<15470, 62322>>, <<42319, 62778>>,
       <<20750, 21119>>, <<39685, 26764>>, <<8067, 55723>>, <<23520, 52505>> >>

\* The message padded to a multiple of 64 bytes: the byte 0x80, zero bytes,
\* and the length of the message in bits as eight bytes, big-endian.
ShaPad(msg) ==
    LET bits == 8 * Len(msg)
        fill == (119 - (Len(msg) % 64)) % 64
    IN  msg \o <<128>> \o [z \in 1..fill |-> 0]
        \o <<0, 0, 0, 0, (bits \div 16777216) % 256, (bits \div 65536) % 256,
             (bits \div 256) % 256, bits % 256>>

\* The sixteen words of block number blk (from 0) of the padded message.
ShaBlock(padded, blk) ==
    [j \in 1..16 |->
        <<256 * padded[64 * blk + 4 * j - 3] + padded[64 * blk + 4 * j - 2],
          256 * padded[64 * blk + 4 * j - 1] + padded[64 * blk + 4 * j]>>] \o <<>>

\* The message schedule extended by n more words: word t is
\* ssig1(w[t-2]) + w[t-7] + ssig0(w[t-15]) + w[t-16].
RECURSIVE ShaExtend(_, _)
ShaExtend(w, n) ==
    IF n = 0 THEN w
    ELSE IF n = 1
    THEN Append(w, WordAdd(WordAdd(SmallSigma1(w[Len(w) - 1]), w[Len(w) - 6]),
                           WordAdd(SmallSigma0(w[Len(w) - 14]), w[Len(w) - 15])))
    ELSE The({ ShaExtend(first, n - n \div 2) : first \in {ShaExtend(w, n \div 2)} })

\* The message schedule: the sixteen words of a block extended to sixty-four.
ShaSchedule(block) == ShaExtend(block, 48)

\* One round on the working variables st = <<a, b, c, d, e, f, g, h>>.
ShaRound(st, k, w) ==
    The({ << WordAdd(t1, t2), st[1], st[2], st[3],
             WordAdd(st[4], t1), st[5], st[6], st[7] >> :
          t1 \in {WordAdd(WordAdd(WordAdd(st[8], BigSigma1(st[5])),
                                  WordAdd(Ch(st[5], st[6], st[7]), k)), w)},
          t2 \in {WordAdd(BigSigma0(st[1]), Maj(st[1], st[2], st[3]))} })

\* Rounds lo..hi, in order.
RECURSIVE ShaRounds(_, _, _, _)
ShaRounds(st, w, lo, hi) ==
    IF lo > hi THEN st
    ELSE IF lo = hi THEN ShaRound(st, ShaK[lo], w[lo])
    ELSE The({ ShaRounds(first, w, (lo + hi) \div 2 + 1, hi) :
               first \in {ShaRounds(st, w, lo, (lo + hi) \div 2)} })

\* The hash value after one more block.
ShaCompress(h, block) ==
    The({ [i \in 1..8 |-> WordAdd(h[i], st[i])] \o <<>> :
          st \in { The({ ShaRounds(h, w, 1, 64) : w \in {ShaSchedule(block)} }) } })

\* The hash value after blocks blk, blk + 1, ... of the padded message.
RECURSIVE ShaBlocks(_, _, _)
ShaBlocks(h, padded, blk) ==
    IF 64 * blk >= Len(padded) THEN h
    ELSE The({ ShaBlocks(next, padded, blk + 1) :
               next \in {ShaCompress(h, ShaBlock(padded, blk))} })

\* The digest of a sequence of bytes: the eight words, big-endian.
ShaDigest(msg) ==
    The({ [i \in 1..DigestLen |->
             LET word == h[(i + 3) \div 4]
                 half == IF ((i - 1) % 4) < 2 THEN word[1] ELSE word[2]
             IN  IF i % 2 = 1 THEN half \div 256 ELSE half % 256] \o <<>> :
          h \in { The({ ShaBlocks(ShaH0, padded, 0) : padded \in {ShaPad(msg)} }) } })

\* The preimages of the blocks that a search on one of the tips hashes:
\* index, timestamp, payload, tip and nonce as calculate_hash formats them.
Preimages ==
    { DisplayUInt(U64Add1(i).val) \o DisplayUInt(t) \o HexEncode(BlockData)
      \o h \o DisplayUInt(n) :
          i \in TipIndexes, t \in 0..MaxClock, h \in TipHashes, n \in 0..U64Max }

\* The digests of these preimages, computed once.
DigestTable == [p \in Preimages |-> ShaDigest(AsBytes(p))] @@ <<>>

\* Sha256::new, update(preimage), finalize: the SHA-256 digest of the bytes
\* of the string, 32 bytes.
Sha256(preimage) ==
    IF preimage \in DOMAIN DigestTable THEN DigestTable[preimage]
    ELSE ShaDigest(AsBytes(preimage))

(***************************************************************************)
(* Block (main.rs 9-40).                                                   *)
(***************************************************************************)
\* calculate_hash with the timestamp read from the clock at the time of the
\* call instead of the block's field.
calculate_hash_clock(b) ==
    HexEncode(Sha256(DisplayUInt(b.index) \o DisplayUInt(now)
                     \o HexEncode(b.data) \o b.previous_hash
                     \o DisplayUInt(b.nonce)))

\* Block::calculate_hash: SHA-256, in hex, of
\* format!("{}{}{}{}{}", index, timestamp, hex::encode(data), previous_hash, nonce).
calculate_hash(b) ==
    HexEncode(Sha256(DisplayUInt(b.index) \o DisplayUInt(b.timestamp)
                     \o HexEncode(b.data) \o b.previous_hash
                     \o DisplayUInt(b.nonce)))

\* Block::new at clock reading t: nonce 0, hash computed from the other fields.
BlockNew(index, data, previous_hash, t) ==
    LET blank == [index |-> index, timestamp |-> t, data |-> data,
                  previous_hash |-> previous_hash, hash |-> <<>>, nonce |-> 0]
        computed == calculate_hash(blank)
    IN  [blank EXCEPT !.hash = computed]

(***************************************************************************)
(* meets_difficulty (main.rs 42-46); d is its `difficulty`.                *)
(***************************************************************************)
\* vec![0u8; n]
Zeros(n) == AsTuple([z \in 1..n |-> 0])

\* <[u8]>::starts_with
StartsWith(bytes, needle) ==
    /\ Len(needle) <= Len(bytes)
    /\ \A w \in 1..Len(needle) : bytes[w] = needle[w]

\* meets_difficulty counting leading zero hex characters instead of bytes.
meets_difficulty_hex_chars(hash, d) ==
    [panic |-> ~HexDecode(hash).ok,
     met |-> HexDecode(hash).ok /\ Len(hash) >= d
             /\ \A u \in 1..d : hash[u] = "0"]

\* meets_difficulty with a target one byte too long.
meets_difficulty_one_more(hash, d) ==
    [panic |-> ~HexDecode(hash).ok,
     met |-> HexDecode(hash).ok
             /\ StartsWith(HexDecode(hash).bytes, Zeros(d + 1))]

\* meets_difficulty with the target cut to the length of the digest.
meets_difficulty_clamped(hash, d) ==
    LET decoded == HexDecode(hash)
        target == Zeros(IF d > Len(decoded.bytes) THEN Len(decoded.bytes) ELSE d)
    IN  [panic |-> ~decoded.ok,
         met |-> decoded.ok /\ StartsWith(decoded.bytes, target)]

\* panic: the expect on hex::decode failed; otherwise met is the result.
meets_difficulty(hash, d) ==
    The({ [panic |-> ~decoded.ok,
           met |-> decoded.ok /\ StartsWith(decoded.bytes, target)]
          : target \in {Zeros(d)}, decoded \in {HexDecode(hash)} })

(***************************************************************************)
(* Parsing the difficulty (main.rs 118-122).                               *)
(***************************************************************************)
DifficultyPrefix == <<"D","i","f","f","i","c","u","l","t","y",":"," ">>

IsPrefix(p, s) == Len(p) <= Len(s) /\ SubSeq(s, 1, Len(p)) = p

\* str::trim_start_matches(pat): removes the pattern from the start for as
\* long as the string starts with it.
RECURSIVE trim_start_matches(_, _)
trim_start_matches(s, pat) ==
    IF pat # <<>> /\ IsPrefix(pat, s)
    THEN trim_start_matches(SubSeq(s, Len(pat) + 1, Len(s)), pat)
    ELSE s

DecVal(c) ==
    IF \E g \in 1..10 : DecDigits[g] = c
    THEN (CHOOSE g \in 1..10 : DecDigits[g] = c) - 1
    ELSE -1

\* u32::MAX = 4294967295 = 10 * U32MaxDiv10 + U32MaxMod10.
U32MaxDiv10 == 429496729
U32MaxMod10 == 5

\* The digit loop of u32::from_str: checked multiply by ten, checked add.
\* (Values are held as integers of the checker, which end at 2^31 - 1.)
RECURSIVE ParseDigits(_, _)
ParseDigits(acc, s) ==
    IF s = <<>> THEN [ok |-> TRUE, val |-> acc]
    ELSE LET d == DecVal(Head(s))
         IN  IF d < 0 THEN [ok |-> FALSE, val |-> 0]
             ELSE IF acc > U32MaxDiv10 \/ (acc = U32MaxDiv10 /\ d > U32MaxMod10)
                  THEN [ok |-> FALSE, val |-> 0]
                  ELSE ParseDigits(acc * 10 + d, Tail(s))

\* str::parse::<u32>: empty is an error; one leading "+" is accepted; a lone
\* sign is an error; "-" is no digit; no whitespace is skipped.
ParseU32(s) ==
    IF s = <<>> THEN [ok |-> FALSE, val |-> 0]
    ELSE LET digits == IF Head(s) = "+" THEN Tail(s) ELSE s
         IN  IF digits = <<>> THEN [ok |-> FALSE, val |-> 0]
             ELSE ParseDigits(0, digits)

\* The part of get_difficulty_from_server after the body has been read.
ParseDifficulty(body) == ParseU32(trim_start_matches(body, DifficultyPrefix))

(***************************************************************************)
(* What the server can answer.                                             *)
(***************************************************************************)
\* The tip of the first end-to-end scenario: index 0, timestamp 0, no data,
\* previous_hash of 64 zeros, nonce 0.
Genesis == [index |-> 0, timestamp |-> 0, data |-> <<>>,
            previous_hash |-> Zero64, hash |-> <<>>, nonce |-> 0]

\* Blocks that /last-block answers with (any JSON block deserializes).
Tips == {[Genesis EXCEPT !.index = i, !.hash = h] : i \in TipIndexes, h \in TipHashes}

\* Bodies that /difficulty answers with.
Bodies ==
    { DifficultyPrefix \o <<"0">>,
      DifficultyPrefix \o <<"1">>,
      DifficultyPrefix \o <<"2">>,
      DifficultyPrefix \o <<"3">>,
      DifficultyPrefix \o <<"3","3">>,
      <<"3">>,
      <<"D","i","f","f","i","c","u","l","t","y",":","3">>,
      DifficultyPrefix \o <<"a","b","c">>,
      DifficultyPrefix \o DifficultyPrefix \o <<"3">>,
      DifficultyPrefix \o <<"4","2","9","4","9","6","7","2","9","6">>,
      DifficultyPrefix }

\* HTTP status codes that /new-block answers with.
Statuses == {200, 409, 500}

\* StatusCode::is_success
is_success(code) == 200 <= code /\ code <= 299

NoBlock == [index |-> -1, timestamp |-> 0, data |-> <<>>,
            previous_hash |-> <<>>, hash |-> <<>>, nonce |-> 0]

\* A printed line: which println! it is and the number it shows.
Line(kind, val) == [kind |-> kind, val |-> val]

NoLine == Line("none", 0)

NoIo == [op |-> "none", outcome |-> "ok", body |-> <<>>]

\* Any server: each answer is chosen freely among those a server can give.
AnyServer == [mock |-> FALSE, tip |-> NoBlock, received |-> <<>>]

\* The deterministic mock: it answers every /difficulty with "Difficulty: 1",
\* every /last-block with its one fixed tip and every /new-block with 200,
\* and keeps what it received.
MockServers == {[mock |-> TRUE, tip |-> t, received |-> <<>>] : t \in Tips}

MockDifficultyBody == DifficultyPrefix \o <<"1">>

MockStatus == 200

\* No call of meets_difficulty apart from the search's.
NoProbe == [hash |-> <<>>, d |-> 0, called |-> FALSE, panic |-> FALSE, met |-> FALSE]

\* The program at the start of main.
InitProgram ==
    /\ overflow_checks \in BOOLEAN
    /\ now \in 0..MaxClock
    /\ pc = "display"
    /\ cycle = 1
    /\ difficulty = -1
    /\ previous_block = NoBlock
    /\ new_block = NoBlock
    /\ worker = "idle"
    /\ attempt = 0
    /\ status = 0
    /\ last_io = NoIo
    /\ stdout = NoLine
    /\ trace = <<>>
    /\ hashes = 0
    /\ incs = 0
    /\ sent = NoBlock
    /\ rejected = FALSE

Init ==
    /\ InitProgram
    /\ server = AnyServer
    /\ probe = NoProbe

\* The program started against the mock server.
InitMock ==
    /\ InitProgram
    /\ server \in MockServers
    /\ probe = NoProbe

\* A saturating history counter.
Bump(n) == IF n < HistCap THEN n + 1 ELSE n

\* The clock advances on its own.
Tick ==
    /\ now < MaxClock
    /\ now' = now + 1
    /\ UNCHANGED <<server, probe, overflow_checks, pc, cycle, difficulty, previous_block,
                   new_block, worker, attempt, status, last_io, stdout,
                   trace, hashes, incs, sent, rejected>>

(***************************************************************************)
(* The server client (main.rs 70-125).  An answer is what the network and  *)
(* the server do to one request: the send fails, reading the response      *)
(* fails, or a response arrives.                                           *)
(***************************************************************************)
DifficultyAnswers ==
    IF server.mock THEN {[kind |-> "body", body |-> MockDifficultyBody]}
    ELSE {[kind |-> "send_err", body |-> <<>>], [kind |-> "read_err", body |-> <<>>]}
         \cup {[kind |-> "body", body |-> b] : b \in Bodies}

TipAnswers ==
    IF server.mock THEN {[kind |-> "block", block |-> server.tip]}
    ELSE {[kind |-> "send_err", block |-> NoBlock], [kind |-> "json_err", block |-> NoBlock]}
         \cup {[kind |-> "block", block |-> t] : t \in Tips}

\* What a POST of /new-block can meet: a failed send, or a status line.
SendAnswers ==
    IF server.mock THEN {[kind |-> "status", code |-> MockStatus]}
    ELSE {[kind |-> "send_err", code |-> 0]}
         \cup {[kind |-> "status", code |-> c] : c \in Statuses}

\* Whether the body of the answer to the POST can be read.
BodyReads == IF server.mock THEN {TRUE} ELSE BOOLEAN

\* What the mock keeps of a block it received.
Received(block) == [index |-> block.index, previous_hash |-> block.previous_hash,
                    hash |-> block.hash]

\* get_difficulty_from_server: Err when the send fails, when the body cannot
\* be read and when the trimmed body does not parse; otherwise Ok(val).
get_difficulty_from_server(answer) ==
    IF answer.kind # "body"
    THEN [ok |-> FALSE, val |-> 0, outcome |-> answer.kind]
    ELSE LET parsed == ParseDifficulty(answer.body)
         IN  [ok |-> parsed.ok, val |-> parsed.val,
              outcome |-> IF parsed.ok THEN "ok" ELSE "parse_err"]

\* get_last_block_from_server: Err when the send fails and when the body is
\* not the JSON of a Block; otherwise Ok(block).
get_last_block_from_server(answer) ==
    [ok |-> answer.kind = "block", block |-> answer.block,
     outcome |-> IF answer.kind = "block" THEN "ok" ELSE answer.kind]

\* send_block_to_server turning a non-2xx status into an Err.
send_block_result_strict(code, body_read) ==
    IF body_read /\ is_success(code) THEN "ok" ELSE "err"

\* The Result of send_block_to_server once the status line has arrived:
\* Err when the body cannot be read, Ok(()) otherwise, whatever the status.
send_block_result(code, body_read) == IF body_read THEN "ok" ELSE "err"

(***************************************************************************)
(* main (main.rs 136-160), one action per awaited call.                    *)
(***************************************************************************)
\* Line 140: display_difficulty().await?  It fetches the difficulty itself
\* and prints it.
DisplayDifficulty ==
    /\ pc = "display"
    /\ \E answer \in DifficultyAnswers :
         LET r == get_difficulty_from_server(answer)
         IN  /\ last_io' = [op |-> "display", outcome |-> r.outcome, body |-> answer.body]
             /\ IF r.ok
                THEN /\ stdout' = Line("difficulty", r.val)
                     /\ trace' = <<"display_difficulty">>
                     /\ pc' = "difficulty"
                ELSE /\ pc' = "err"
                     /\ UNCHANGED <<stdout, trace>>
    /\ UNCHANGED <<server, probe, overflow_checks, now, cycle, difficulty, previous_block,
                   new_block, worker, attempt, status, hashes, incs, sent, rejected>>

\* Line 144: let difficulty = get_difficulty_from_server().await?
GetDifficulty ==
    /\ pc = "difficulty"
    /\ \E answer \in DifficultyAnswers :
         LET r == get_difficulty_from_server(answer)
         IN  /\ last_io' = [op |-> "difficulty", outcome |-> r.outcome, body |-> answer.body]
             /\ IF r.ok
                THEN /\ difficulty' = r.val
                     /\ trace' = Append(trace, "difficulty")
                     /\ pc' = "tip"
                ELSE /\ pc' = "err"
                     /\ UNCHANGED <<difficulty, trace>>
    /\ UNCHANGED <<server, probe, overflow_checks, now, cycle, previous_block, new_block,
                   worker, attempt, status, stdout, hashes, incs, sent, rejected>>

\* Line 148 without the `?`: a failed fetch of the tip is passed over and
\* the cycle goes on with a default block.
GetLastBlockLenient ==
    /\ pc = "tip"
    /\ \E answer \in TipAnswers :
         LET r == get_last_block_from_server(answer)
         IN  /\ last_io' = [op |-> "tip", outcome |-> r.outcome, body |-> <<>>]
             /\ previous_block' = IF r.ok THEN r.block ELSE Genesis
             /\ trace' = Append(trace, "tip")
             /\ pc' = "mine"
    /\ UNCHANGED <<server, probe, overflow_checks, now, cycle, difficulty, new_block, worker,
                   attempt, status, stdout, hashes, incs, sent, rejected>>

\* Line 148: let previous_block = get_last_block_from_server().await?
GetLastBlock ==
    /\ pc = "tip"
    /\ \E answer \in TipAnswers :
         LET r == get_last_block_from_server(answer)
         IN  /\ last_io' = [op |-> "tip", outcome |-> r.outcome, body |-> <<>>]
             /\ IF r.ok
                THEN /\ previous_block' = r.block
                     /\ trace' = Append(trace, "tip")
                     /\ pc' = "mine"
                ELSE /\ pc' = "err"
                     /\ UNCHANGED <<previous_block, trace>>
    /\ UNCHANGED <<server, probe, overflow_checks, now, cycle, difficulty, new_block, worker,
                   attempt, status, stdout, hashes, incs, sent, rejected>>

\* mine_block returning at the spawn, without awaiting the task.
MineBlockDetached ==
    /\ pc = "mine"
    /\ LET next == U64Add1(previous_block.index)
       IN  IF next.overflow /\ overflow_checks
           THEN /\ pc' = "panic"
                /\ UNCHANGED <<new_block, worker, attempt, trace, hashes, incs>>
           ELSE /\ new_block' = BlockNew(next.val, BlockData, previous_block.hash, now)
                /\ worker' = "running"
                /\ attempt' = 0
                /\ hashes' = 1
                /\ incs' = 0
                /\ trace' = Append(trace, "search_start")
                /\ pc' = "submit"
    /\ UNCHANGED <<server, probe, overflow_checks, now, cycle, difficulty, previous_block,
                   status, last_io, stdout, sent, rejected>>

\* mine_block numbering the block by the client's own count of cycles on top
\* of the tip, instead of by the tip alone.
MineBlockOwnHeight ==
    /\ pc = "mine"
    /\ LET next == U64Add1(previous_block.index)
       IN  IF next.overflow /\ overflow_checks
           THEN /\ pc' = "panic"
                /\ UNCHANGED <<new_block, worker, attempt, trace, hashes, incs>>
           ELSE /\ new_block' = BlockNew((previous_block.index + cycle) % (U64Max + 1),
                                         BlockData, previous_block.hash, now)
                /\ worker' = "running"
                /\ attempt' = 0
                /\ hashes' = 1
                /\ incs' = 0
                /\ trace' = Append(trace, "search_start")
                /\ pc' = "join"
    /\ UNCHANGED <<server, probe, overflow_checks, now, cycle, difficulty, previous_block,
                   status, last_io, stdout, sent, rejected>>

\* Lines 151-152 and 49-52: mine_block up to the spawn.  previous_block.index
\* + 1 panics in main when it overflows under overflow checks; otherwise the
\* candidate is built and moved into the blocking task, which main awaits.
MineBlock ==
    /\ pc = "mine"
    /\ LET next == U64Add1(previous_block.index)
       IN  IF next.overflow /\ overflow_checks
           THEN /\ pc' = "panic"
                /\ UNCHANGED <<new_block, worker, attempt, trace, hashes, incs>>
           ELSE /\ new_block' = BlockNew(next.val, BlockData, previous_block.hash, now)
                /\ worker' = "running"
                /\ attempt' = 0
                /\ hashes' = 1
                /\ incs' = 0
                /\ trace' = Append(trace, "search_start")
                /\ pc' = "join"
    /\ UNCHANGED <<server, probe, overflow_checks, now, cycle, difficulty, previous_block,
                   status, last_io, stdout, sent, rejected>>

\* The search loop without line 56: the nonce moves on, the hash stays.
SearchStepStaleHash(block, tries) ==
    LET check == meets_difficulty(block.hash, difficulty)
        n == U64Add1(block.nonce)
        a == I32Add1(tries)
        bumped == [block EXCEPT !.nonce = n.val]
    IN  IF check.panic THEN [stop |-> "panicked", block |-> block, tries |-> tries, hashed |-> FALSE, printed |-> FALSE]
        ELSE IF check.met THEN [stop |-> "done", block |-> block, tries |-> tries, hashed |-> FALSE, printed |-> FALSE]
        ELSE IF n.overflow /\ overflow_checks
             THEN [stop |-> "panicked", block |-> block, tries |-> tries, hashed |-> FALSE, printed |-> FALSE]
        ELSE IF a.overflow /\ overflow_checks
             THEN [stop |-> "panicked", block |-> bumped, tries |-> tries, hashed |-> FALSE, printed |-> FALSE]
        ELSE [stop |-> "running", block |-> bumped, tries |-> a.val, hashed |-> FALSE, printed |-> FALSE]

\* The search loop taking a fresh timestamp with every nonce.
SearchStepRefreshTimestamp(block, tries) ==
    LET check == meets_difficulty(block.hash, difficulty)
        n == U64Add1(block.nonce)
        a == I32Add1(tries)
        bumped == [block EXCEPT !.nonce = n.val, !.timestamp = now]
        computed == calculate_hash(bumped)
        rehashed == [bumped EXCEPT !.hash = computed]
    IN  IF check.panic THEN [stop |-> "panicked", block |-> block, tries |-> tries, hashed |-> FALSE, printed |-> FALSE]
        ELSE IF check.met THEN [stop |-> "done", block |-> block, tries |-> tries, hashed |-> FALSE, printed |-> FALSE]
        ELSE IF n.overflow /\ overflow_checks
             THEN [stop |-> "panicked", block |-> block, tries |-> tries, hashed |-> FALSE, printed |-> FALSE]
        ELSE IF a.overflow /\ overflow_checks
             THEN [stop |-> "panicked", block |-> rehashed, tries |-> tries,
                   hashed |-> TRUE, printed |-> FALSE]
        ELSE [stop |-> "running", block |-> rehashed, tries |-> a.val,
              hashed |-> TRUE, printed |-> a.val % 100 = 0]

\* The search loop with `nonce += 2`: every other nonce is passed over.
SearchStepSkip(block, tries) ==
    LET check == meets_difficulty(block.hash, difficulty)
        n1 == U64Add1(block.nonce)
        n == U64Add1(n1.val)
        a == I32Add1(tries)
        bumped == [block EXCEPT !.nonce = n.val]
        computed == calculate_hash(bumped)
        rehashed == [bumped EXCEPT !.hash = computed]
    IN  IF check.panic THEN [stop |-> "panicked", block |-> block, tries |-> tries, hashed |-> FALSE, printed |-> FALSE]
        ELSE IF check.met THEN [stop |-> "done", block |-> block, tries |-> tries, hashed |-> FALSE, printed |-> FALSE]
        ELSE IF (n1.overflow \/ n.overflow) /\ overflow_checks
             THEN [stop |-> "panicked", block |-> block, tries |-> tries, hashed |-> FALSE, printed |-> FALSE]
        ELSE IF a.overflow /\ overflow_checks
             THEN [stop |-> "panicked", block |-> rehashed, tries |-> tries,
                   hashed |-> TRUE, printed |-> FALSE]
        ELSE [stop |-> "running", block |-> rehashed, tries |-> a.val,
              hashed |-> TRUE, printed |-> a.val % 100 = 0]

\* Lines 54-62: one evaluation of the loop condition and, when it is false,
\* one run of the loop body.  `stop` is why the task ends here, if it does;
\* `printed` is whether line 60 printed the attempt.
SearchStep(block, tries) ==
    LET check == meets_difficulty(block.hash, difficulty)
        n == U64Add1(block.nonce)
        a == I32Add1(tries)
        bumped == [block EXCEPT !.nonce = n.val]
        computed == calculate_hash(bumped)
        rehashed == [bumped EXCEPT !.hash = computed]
    IN  IF check.panic THEN [stop |-> "panicked", block |-> block, tries |-> tries, hashed |-> FALSE, printed |-> FALSE]
        ELSE IF check.met THEN [stop |-> "done", block |-> block, tries |-> tries, hashed |-> FALSE, printed |-> FALSE]
        ELSE IF n.overflow /\ overflow_checks
             THEN [stop |-> "panicked", block |-> block, tries |-> tries, hashed |-> FALSE, printed |-> FALSE]
        ELSE IF a.overflow /\ overflow_checks
             THEN [stop |-> "panicked", block |-> rehashed, tries |-> tries,
                   hashed |-> TRUE, printed |-> FALSE]
        ELSE [stop |-> "running", block |-> rehashed, tries |-> a.val,
              hashed |-> TRUE, printed |-> a.val % 100 = 0]

\* The blocking task (lines 52-65) takes one step.
Worker ==
    /\ worker = "running"
    /\ \E step \in {SearchStep(new_block, attempt)} :
           /\ worker' = step.stop
           /\ new_block' = step.block
           /\ attempt' = step.tries
           /\ hashes' = IF step.hashed THEN Bump(hashes) ELSE hashes
           /\ incs' = IF step.hashed THEN Bump(incs) ELSE incs
           /\ trace' = IF step.stop = "done" THEN Append(trace, "search_done") ELSE trace
           /\ stdout' = IF step.printed THEN Line("attempt", step.tries) ELSE stdout
    /\ UNCHANGED <<server, probe, overflow_checks, now, pc, cycle, difficulty, previous_block,
                   status, last_io, sent, rejected>>

\* Line 67 without the await: main goes on with the candidate while the task
\* may still be running.
JoinEarly ==
    /\ pc = "join"
    /\ pc' = "submit"
    /\ UNCHANGED <<server, probe, overflow_checks, now, cycle, difficulty, previous_block,
                   new_block, worker, attempt, status, last_io, stdout, trace,
                   hashes, incs, sent, rejected>>

\* Line 67: mining_task.await.unwrap().  The task's block becomes main's
\* new_block; a panic of the task panics main.
Join ==
    /\ pc = "join"
    /\ worker \in {"done", "panicked"}
    /\ pc' = IF worker = "done" THEN "submit" ELSE "panic"
    /\ worker' = IF worker = "done" THEN "idle" ELSE worker
    /\ UNCHANGED <<server, probe, overflow_checks, now, cycle, difficulty, previous_block,
                   new_block, attempt, status, last_io, stdout, trace,
                   hashes, incs, sent, rejected>>

\* main passing previous_block instead of new_block to send_block_to_server.
SendBlockTip ==
    /\ pc = "submit_wait"
    /\ \E answer \in SendAnswers :
         IF answer.kind = "send_err"
         THEN /\ last_io' = [op |-> "submit", outcome |-> "send_err", body |-> <<>>]
              /\ pc' = "err"
              /\ UNCHANGED <<status, trace, sent, server>>
         ELSE /\ status' = answer.code
              /\ sent' = previous_block
              /\ server' = IF server.mock
                            THEN [server EXCEPT !.received = Append(@, Received(previous_block))]
                            ELSE server
              /\ last_io' = [op |-> "submit", outcome |-> "ok", body |-> <<>>]
              /\ trace' = Append(trace, "submit_sent")
              /\ pc' = "submit_body"
    /\ UNCHANGED <<probe, overflow_checks, now, cycle, difficulty, previous_block,
                   new_block, worker, attempt, stdout, hashes, incs, rejected>>

\* Lines 85-93: the block is printed, the POST goes out and main waits for
\* the answer at the await of line 93.
SendBlockPrint ==
    /\ pc = "submit"
    /\ stdout' = Line("sending", 0)
    /\ pc' = "submit_wait"
    /\ UNCHANGED <<server, probe, overflow_checks, now, cycle, difficulty, previous_block,
                   new_block, worker, attempt, status, last_io, trace, hashes, incs,
                   sent, rejected>>

\* Lines 93-96: the await of the POST ends, with a failed send or with the
\* status line of the response.
SendBlock ==
    /\ pc = "submit_wait"
    /\ \E answer \in SendAnswers :
         IF answer.kind = "send_err"
         THEN /\ last_io' = [op |-> "submit", outcome |-> "send_err", body |-> <<>>]
              /\ pc' = "err"
              /\ UNCHANGED <<status, trace, sent, server>>
         ELSE /\ status' = answer.code
              /\ sent' = new_block
              /\ server' = IF server.mock
                            THEN [server EXCEPT !.received = Append(@, Received(new_block))]
                            ELSE server
              /\ last_io' = [op |-> "submit", outcome |-> "ok", body |-> <<>>]
              /\ trace' = Append(trace, "submit_sent")
              /\ pc' = "submit_body"
    /\ UNCHANGED <<probe, overflow_checks, now, cycle, difficulty, previous_block,
                   new_block, worker, attempt, stdout, hashes, incs, rejected>>

\* Lines 97-106 and 154-155: the body of the response and the Result that
\* main applies `?` to.
SendBlockBody ==
    /\ pc = "submit_body"
    /\ \E body_read \in BodyReads :
         /\ last_io' = [op |-> "submit_body",
                        outcome |-> IF body_read THEN "ok" ELSE "read_err",
                        body |-> <<>>]
         /\ trace' = IF body_read THEN Append(trace, "submit_answered") ELSE trace
         /\ stdout' = IF ~body_read THEN stdout
                       ELSE IF is_success(status) THEN Line("sent", 0)
                       ELSE Line("failed", status)
         /\ rejected' = (rejected \/ (body_read /\ ~is_success(status)))
         /\ pc' = IF send_block_result(status, body_read) = "ok" THEN "sleep" ELSE "err"
    /\ UNCHANGED <<server, probe, overflow_checks, now, cycle, difficulty, previous_block,
                   new_block, worker, attempt, status, hashes, incs, sent>>

\* Lines 158-159 and 138: the sleep, the end of the iteration (its locals
\* are dropped) and the start of the next one.
Sleep ==
    /\ pc = "sleep"
    /\ cycle < MaxCycles
    /\ cycle' = cycle + 1
    /\ pc' = "display"
    /\ difficulty' = -1
    /\ previous_block' = NoBlock
    /\ new_block' = NoBlock
    /\ attempt' = 0
    /\ status' = 0
    /\ sent' = NoBlock
    /\ UNCHANGED <<server, probe, overflow_checks, now, worker, last_io, stdout, trace,
                   hashes, incs, rejected>>

Next ==
    \/ Tick
    \/ DisplayDifficulty
    \/ GetDifficulty
    \/ GetLastBlock
    \/ MineBlock
    \/ Worker
    \/ Join
    \/ SendBlockPrint
    \/ SendBlock
    \/ SendBlockBody
    \/ Sleep

Spec == Init /\ [][Next]_vars

\* The program with its scheduling: the thread of the blocking task keeps
\* running while the task has a step to take, and the runtime resumes main
\* when the task it awaits has ended.
SpecFair == Init /\ [][Next]_vars /\ WF_vars(Worker) /\ WF_vars(Join)

\* The program against the mock server.
SpecMock == InitMock /\ [][Next]_vars

(***************************************************************************)
(* meets_difficulty called on its own (main.rs 42-46), on hex strings and   *)
(* difficulties of every shape.                                            *)
(***************************************************************************)
\* Digests with 0, 1, 2 or all but one leading zero bytes before a nonzero
\* byte, and the all-zero digest.
ProbeDigests ==
    {Zeros(k) \o <<b>> \o Zeros(DigestLen - k - 1) :
        k \in {0, 1, 2, DigestLen - 1}, b \in {1, 10, 16, 255}}
    \cup {Zeros(DigestLen)}

\* The digests in hex, and strings that are no digest: empty, one byte in
\* either case, of odd length, with a character that is no hex digit.
ProbeHashes ==
    {HexEncode(x) : x \in ProbeDigests}
    \cup {<<>>, <<"0","0">>, <<"0","a">>, <<"0","A">>, <<"0","0","0">>, <<"0","g">>}

\* Difficulties up to beyond the length of a digest.
MaxProbeDifficulty == DigestLen + 2

InitProbe ==
    /\ InitProgram
    /\ server = AnyServer
    /\ \E h \in ProbeHashes, d \in 0..MaxProbeDifficulty :
         probe = [hash |-> h, d |-> d, called |-> FALSE, panic |-> FALSE, met |-> FALSE]

\* meets_difficulty(&probe.hash, probe.d)
CallMeetsDifficulty ==
    /\ ~probe.called
    /\ LET r == meets_difficulty(probe.hash, probe.d)
       IN  probe' = [probe EXCEPT !.called = TRUE, !.panic = r.panic, !.met = r.met]
    /\ UNCHANGED <<server, overflow_checks, now, pc, cycle, difficulty, previous_block,
                   new_block, worker, attempt, status, last_io, stdout, trace,
                   hashes, incs, sent, rejected>>

SpecProbe == InitProbe /\ [][CallMeetsDifficulty]_vars

(***************************************************************************)
(* Properties.                                                             *)
(***************************************************************************)
\* mine_block has returned its block: the task has ended with the loop
\* condition true (the block is still the task's, or main's after the join).
MineReturned == new_block # NoBlock /\ worker \in {"done", "idle"}

\* A fetch (of the difficulty, by either caller, or of the tip) has failed.
FetchFailed ==
    /\ last_io.op \in {"display", "difficulty", "tip"}
    /\ last_io.outcome # "ok"

\* C1: whenever mine_block has returned a block, the first `difficulty`
\* bytes of its hex-decoded hash exist and are all zero.
C1_MinedMeetsDifficulty ==
    MineReturned =>
        LET decoded == HexDecode(new_block.hash)
        IN  /\ decoded.ok
            /\ Len(decoded.bytes) >= difficulty
            /\ \A n \in 1..difficulty : decoded.bytes[n] = 0

\* A search that needed several nonces has returned at difficulty 2.
C1_Witness ==
    MineReturned /\ difficulty = 2 /\ new_block.nonce >= 2

\* C2: the stored hash equals calculate_hash of the block, in every state
\* between construction and submission: right after Block::new, at each
\* evaluation of the loop condition, for the block returned and the one sent.
C2_HashIsCalculated ==
    /\ new_block # NoBlock => new_block.hash = calculate_hash(new_block)
    /\ sent # NoBlock => sent = new_block /\ sent.hash = calculate_hash(sent)

\* A block whose nonce has moved has been sent.
C2_Witness ==
    sent # NoBlock /\ sent.nonce >= 3 /\ pc = "submit_body"

\* C3 (as claimed): for every tip, the returned block links to the tip by
\* hash and its index is the tip's index plus one.
C3_SuccessorOfTip ==
    MineReturned =>
        /\ new_block.previous_hash = previous_block.hash
        /\ new_block.index = previous_block.index + 1

\* C4 (as claimed): when the worker acts with the nonce at its maximum and the
\* predicate still false, it stops with a SearchExhausted error.
C4_SearchExhaustedReported ==
    [][ ( /\ worker = "running"
          /\ new_block.nonce = U64Max
          /\ ~meets_difficulty(new_block.hash, difficulty).met
          /\ <<worker, new_block, attempt>>' # <<worker, new_block, attempt>> )
        => worker' = "exhausted" ]_vars

\* C5 (as claimed): a difficulty body that does not start with
\* "Difficulty: " is rejected.
C5_PrefixRequired ==
    ( /\ last_io.op \in {"display", "difficulty"}
      /\ last_io.outcome \in {"ok", "parse_err"}
      /\ ~IsPrefix(DifficultyPrefix, last_io.body) )
    => last_io.outcome = "parse_err"

\* C6: when the body of a non-2xx answer to the POST has been read, main goes
\* to the sleep and not to an Err; from the sleep it starts the next
\* iteration with no difficulty and no tip; and it enters mine_block only
\* with the difficulty and the tip fetched in the current iteration.
C6_RejectionContinues ==
    [][ /\ ( /\ pc = "submit_body"
             /\ ~is_success(status)
             /\ last_io'.op = "submit_body" /\ last_io'.outcome = "ok" )
           => pc' = "sleep"
        /\ (pc = "sleep" /\ pc' # "sleep")
           => (pc' = "display" /\ cycle' = cycle + 1
               /\ difficulty' = -1 /\ previous_block' = NoBlock)
        /\ (pc = "mine" /\ pc' = "join")
           => (trace = <<"display_difficulty", "difficulty", "tip">>
               /\ difficulty >= 0 /\ previous_block # NoBlock) ]_vars

\* After a rejected submission a later iteration is mining.
C6_Witness ==
    rejected /\ cycle = 2 /\ worker = "running" /\ pc = "join"

\* C7: a failed fetch takes main to the returned Err, and from there nothing
\* moves: no search is started and no block is sent.
C7_FetchFailureEnds ==
    [][ /\ FetchFailed' => (pc' = "err" /\ worker' # "running")
        /\ FetchFailed => UNCHANGED <<pc, cycle, worker, new_block, sent, trace,
                                      last_io, difficulty, previous_block>> ]_vars

\* A fetch of the tip has failed in the second iteration.
C7_Witness ==
    FetchFailed /\ last_io.op = "tip" /\ cycle = 2 /\ pc = "err"

\* The events of one iteration, in order.
CycleOrder ==
    <<"display_difficulty", "difficulty", "tip", "search_start", "search_done",
      "submit_sent", "submit_answered">>

\* C8: the events of an iteration happen in the order of CycleOrder, and a
\* fetch of the next iteration happens only after the answer to the POST of
\* the current one.
C8_Sequential ==
    [][ /\ Len(trace') <= Len(CycleOrder)
        /\ trace' = SubSeq(CycleOrder, 1, Len(trace'))
        /\ (last_io'.op = "display" /\ last_io.op # "display" /\ trace # <<>>)
           => trace = CycleOrder ]_vars

\* A second iteration has fetched after a complete first one.
C8_Witness ==
    cycle = 2 /\ trace = <<"display_difficulty", "difficulty", "tip", "search_start">>

\* The canonical preimage: decimal index, decimal timestamp, hex data,
\* previous_hash, decimal nonce, in this order, nothing between them.
CanonicalPreimage(index, timestamp, data, previous_hash, nonce) ==
    DisplayUInt(index) \o DisplayUInt(timestamp) \o HexEncode(data)
    \o previous_hash \o DisplayUInt(nonce)

\* C9: the hash of a block is the hex digest of the canonical preimage of its
\* five fields, whatever the clock reads and whatever hash was stored before.
C9_HashOfCanonicalPreimage ==
    new_block # NoBlock =>
        new_block.hash =
            HexEncode(Sha256(CanonicalPreimage(new_block.index, new_block.timestamp,
                                               new_block.data, new_block.previous_hash,
                                               new_block.nonce)))

\* The hash was recomputed in the search after the clock had moved on.
C9_Witness ==
    new_block # NoBlock /\ new_block.nonce >= 1 /\ now > new_block.timestamp

\* C10: at difficulty 0 the search takes no step: the block returned has
\* nonce 0, its hash was computed once (by Block::new) and the nonce was
\* never incremented; the task does not panic.
C10_DifficultyZero ==
    (difficulty = 0 /\ new_block # NoBlock) =>
        /\ worker # "panicked"
        /\ new_block.nonce = 0
        /\ attempt = 0
        /\ hashes <= 1
        /\ incs = 0

\* mine_block has returned at difficulty 0.
C10_Witness ==
    MineReturned /\ difficulty = 0 /\ new_block.nonce = 0 /\ hashes = 1 /\ pc = "submit"

\* C11 (as claimed): against the mock server, every block submitted after the
\* first has the index of the block submitted before it plus one, and that
\* block's hash as its previous_hash.
C11_SubmissionsChain ==
    server.mock =>
        \A k \in 2..Len(server.received) :
            /\ server.received[k].index = server.received[k - 1].index + 1
            /\ server.received[k].previous_hash = server.received[k - 1].hash

\* C11 (amended): against the mock server, every submitted block has the
\* hash of the fixed tip as its previous_hash, and every block submitted
\* after the first has the same index as the block submitted before it.
C11_SubmissionsOnFixedTip ==
    server.mock =>
        /\ \A k \in 1..Len(server.received) :
               server.received[k].previous_hash = server.tip.hash
        /\ \A k \in 2..Len(server.received) :
               server.received[k].index = server.received[k - 1].index

\* The mock has received the blocks of two cycles.
C11_Witness ==
    server.mock /\ Len(server.received) >= 2 /\ server.tip.hash = GenesisHash

\* C12 (as claimed): a failed send of the POST and a failed read of the
\* response body are passed over: main goes on to the sleep and the next
\* cycle.
C12_SubmitFailureContinues ==
    [][ ( /\ pc \in {"submit_wait", "submit_body"}
          /\ last_io'.op \in {"submit", "submit_body"}
          /\ last_io'.outcome \in {"send_err", "read_err"}
          /\ last_io' # last_io )
        => pc' = "sleep" ]_vars

\* C13 (as claimed): from the fetch of the difficulty to the end of the
\* search, the difficulty on the "Current Difficulty" line printed in this
\* cycle is the difficulty main holds and mines with.
C13_DisplayedIsMined ==
    (pc \in {"tip", "mine", "join"} /\ stdout.kind = "difficulty")
    => stdout.val = difficulty

\* The candidate of the current search with nonce n, hashed, meets the
\* difficulty of the current search.
NonceMeets(n) ==
    LET candidate == [new_block EXCEPT !.nonce = n]
    IN  meets_difficulty(calculate_hash(candidate), difficulty).met

\* C14: the candidate starts with nonce 0; a step of the search moves the
\* nonce only when the candidate does not meet the difficulty, and then to
\* the next value; and the block that mine_block has returned, which main
\* goes on to send, meets the difficulty and no nonce below the block's does:
\* the nonce is the least.
\* (A nonce at u64::MAX has no next value: what the step does there is C4's.)
C14_LeastNonce ==
    [][ /\ (new_block = NoBlock /\ new_block' # NoBlock) => new_block'.nonce = 0
        /\ ( /\ new_block # NoBlock /\ new_block' # NoBlock
             /\ new_block'.nonce # new_block.nonce )
           => /\ ~meets_difficulty(new_block.hash, difficulty).met
              /\ new_block.nonce < U64Max => new_block'.nonce = new_block.nonce + 1
        /\ (pc = "submit" /\ pc' # "submit")
           => /\ NonceMeets(new_block.nonce)
              /\ \A n \in 0..(new_block.nonce - 1) : ~NonceMeets(n) ]_vars

\* A block that was returned after the search had passed three nonces has
\* been sent.
C14_Witness ==
    MineReturned /\ difficulty >= 1 /\ new_block.nonce >= 3 /\ pc = "submit_body"
    /\ sent = new_block

\* C15: the candidate is constructed with the clock reading of that moment
\* as its timestamp, the payload as its data and the tip's hash as its
\* previous_hash; from then on, through every step of the search, the return
\* and the submission, its index, timestamp, data and previous_hash stay as
\* constructed.
C15_SearchFrame ==
    [][ /\ (new_block = NoBlock /\ new_block' # NoBlock)
           => /\ new_block'.timestamp = now
              /\ new_block'.data = BlockData
              /\ new_block'.previous_hash = previous_block.hash
        /\ (new_block # NoBlock /\ new_block' # NoBlock)
           => /\ new_block'.index = new_block.index
              /\ new_block'.timestamp = new_block.timestamp
              /\ new_block'.data = new_block.data
              /\ new_block'.previous_hash = new_block.previous_hash ]_vars

\* The task has ended a search of several steps during which the clock moved
\* on; main has not joined it yet.
C15_Witness ==
    /\ worker = "done" /\ pc = "join"
    /\ new_block.nonce >= 2
    /\ now > new_block.timestamp

\* C16: while the task runs, main waits at the join and makes no request
\* and sends nothing; a task is spawned only when none exists; the candidate
\* is changed only by a step of the running task; and main leaves the join
\* for the submission only when the task has returned its block.
C16_WorkerJoined ==
    [][ /\ worker' = "running" => pc' = "join"
        /\ worker = "running"
           => /\ pc' = pc
              /\ UNCHANGED <<last_io, sent, status, difficulty, previous_block, cycle>>
        /\ (worker # "running" /\ worker' = "running")
           => (worker = "idle" /\ pc = "mine")
        /\ (new_block # NoBlock /\ new_block' # new_block /\ new_block' # NoBlock)
           => worker = "running"
        /\ (pc = "join" /\ pc' # "join")
           => /\ worker \in {"done", "panicked"}
              /\ pc' = "submit" <=> worker = "done"
              /\ new_block' = new_block ]_vars

\* The task is in the middle of a search while main waits at the join.
C16_Witness ==
    worker = "running" /\ pc = "join" /\ attempt >= 2 /\ new_block.nonce >= 2

\* C17: a block is sent only after this cycle's two fetches and search, and
\* it is the block mine_block returned, linked to the tip and meeting the
\* difficulty that main holds; these were bound in this cycle, because a tip
\* and a difficulty are bound only by their fetches and are dropped, with
\* the block, when the cycle ends; and a cycle sends no second block.
C17_SubmitsMinedBlock ==
    [][ /\ (sent' # sent /\ sent' # NoBlock)
           => /\ sent = NoBlock
              /\ pc = "submit_wait"
              /\ trace = SubSeq(CycleOrder, 1, 5)
              /\ sent' = new_block
              /\ new_block.previous_hash = previous_block.hash
              /\ meets_difficulty(new_block.hash, difficulty).met
        /\ (difficulty' # difficulty /\ difficulty' # -1) => pc = "difficulty"
        /\ (previous_block' # previous_block /\ previous_block' # NoBlock) => pc = "tip"
        /\ cycle' # cycle
           => /\ trace = CycleOrder
              /\ difficulty' = -1 /\ previous_block' = NoBlock
              /\ new_block' = NoBlock /\ sent' = NoBlock ]_vars

\* The second cycle has sent the block it mined on the tip with index 9.
C17_Witness ==
    /\ cycle = 2 /\ pc = "sleep"
    /\ sent # NoBlock /\ sent = new_block
    /\ previous_block.index = 9 /\ sent.index = 10

\* C18: for a hex string that decodes, meets_difficulty(hash, d) is true
\* exactly when the decoded bytes have d leading bytes and these are zero,
\* which is exactly when the string starts with 2d characters "0"; so it is
\* true for d = 0 and false for d beyond the number of decoded bytes.
C18_LeadingZeroBytes ==
    (probe.called /\ ~probe.panic) =>
        LET bytes == HexDecode(probe.hash).bytes
        IN  /\ probe.met <=> ( /\ probe.d <= Len(bytes)
                               /\ \A n \in 1..probe.d : bytes[n] = 0 )
            /\ probe.met <=> ( /\ 2 * probe.d <= Len(probe.hash)
                               /\ \A n \in 1..(2 * probe.d) : probe.hash[n] = "0" )
            /\ probe.d = 0 => probe.met
            /\ probe.d > Len(bytes) => ~probe.met

\* The predicate was called on the all-zero digest with a difficulty beyond
\* the digest's length, and answered false.
C18_Witness ==
    /\ probe.called /\ ~probe.panic
    /\ probe.hash = Zero64 /\ probe.d > DigestLen
    /\ ~probe.met

\* C19 (as claimed): whenever main waits for a search, it eventually stops
\* waiting: the search has returned a block or has failed.
C19_SearchEnds ==
    (pc = "join") ~> (pc # "join")

\* C20 (as claimed): a difficulty body that starts with "Difficulty: " is
\* accepted exactly when what follows the first "Difficulty: " parses as a
\* u32, and the difficulty is then that number; so a body in which the
\* prefix is repeated is rejected.
C20_PrefixRemovedOnce ==
    ( /\ last_io.op \in {"display", "difficulty"}
      /\ last_io.outcome \in {"ok", "parse_err"}
      /\ IsPrefix(DifficultyPrefix, last_io.body) )
    => LET rest == SubSeq(last_io.body, Len(DifficultyPrefix) + 1, Len(last_io.body))
       IN  /\ last_io.outcome = "ok" <=> ParseU32(rest).ok
           /\ (last_io.outcome = "ok" /\ last_io.op = "difficulty")
              => difficulty = ParseU32(rest).val
           /\ IsPrefix(DifficultyPrefix, rest) => last_io.outcome = "parse_err"

====
